---- MODULE Spec2Model ----
(***************************************************************************)
(* A model of the natural-language-to-SQL question loop of                 *)
(* DataAccessThruPrompt.py (the "gemini" variant) and                      *)
(* DataAccessThruPromptMistral.py (the "mistral" variant).                 *)
(*                                                                         *)
(* Text is a TLA+ string; a character is a string of length one.  Python   *)
(* and JSON values are tagged records (PyNone, PyInt, PyStrV, PyBool,      *)
(* PyList, PyDict), so that values of different types can be compared.     *)
(***************************************************************************)
EXTENDS Integers, Sequences, FiniteSets, TLC

\* ------------------------------------------------------------------ bounds

\* The most connections the model lets stay open at once.
MaxOpen == 2
\* SpecSql: the most pieces of Pieces a completion text is made of.
MaxPieces == 3
\* SpecAnswer: the most rows, and the most columns, of a query result.
MaxRows == 2
MaxCols == 2

\* -------------------------------------------------------------------- text

Char(s, i) == SubSeq(s, i, i)

Drop(s, n) == SubSeq(s, n + 1, Len(s))

StartsWithAt(s, i, p) == i + Len(p) - 1 <= Len(s) /\ SubSeq(s, i, i + Len(p) - 1) = p

\* str.strip() with no argument removes these (of the characters modelled).
PyWhitespace == {" ", "\n", "\t", "\r"}

RECURSIVE LStrip(_)
LStrip(s) ==
    IF Len(s) > 0 /\ Char(s, 1) \in PyWhitespace THEN LStrip(Drop(s, 1)) ELSE s

RECURSIVE RStrip(_)
RStrip(s) ==
    IF Len(s) > 0 /\ Char(s, Len(s)) \in PyWhitespace
    THEN RStrip(SubSeq(s, 1, Len(s) - 1))
    ELSE s

\* str.strip()
Strip(s) == RStrip(LStrip(s))

\* str.replace(old, new) for a non-empty old: the occurrences of old are
\* found from the left, none overlapping another, and each becomes new.
RECURSIVE Replace(_, _, _)
Replace(s, old, new) ==
    IF Len(s) < Len(old) THEN s
    ELSE IF StartsWithAt(s, 1, old)
         THEN new \o Replace(Drop(s, Len(old)), old, new)
         ELSE Char(s, 1) \o Replace(Drop(s, 1), old, new)

UpperLetters == "ABCDEFGHIJKLMNOPQRSTUVWXYZ"
LowerLetters == "abcdefghijklmnopqrstuvwxyz"

LowerChar(c) ==
    IF \E i \in 1..26 : Char(UpperLetters, i) = c
    THEN Char(LowerLetters, CHOOSE i \in 1..26 : Char(UpperLetters, i) = c)
    ELSE c

\* str.lower()
RECURSIVE Lower(_)
Lower(s) == IF Len(s) = 0 THEN "" ELSE LowerChar(Char(s, 1)) \o Lower(Drop(s, 1))

Digits == "0123456789"

RECURSIVE Decimal(_)
Decimal(n) ==
    IF n < 10 THEN Char(Digits, n + 1)
    ELSE Decimal(n \div 10) \o Char(Digits, (n % 10) + 1)

\* str(n) of an int
IntStr(n) == IF n < 0 THEN "-" \o Decimal(-n) ELSE Decimal(n)

\* ----------------------------------------------------------- Python values

PyNone == [t |-> "None"]
PyInt(n) == [t |-> "int", i |-> n]
PyStrV(s) == [t |-> "str", s |-> s]
PyBool(b) == [t |-> "bool", b |-> b]
PyList(l) == [t |-> "list", l |-> l]
\* A dict is its items in insertion order, keys distinct: <<key, value>>.
PyDict(m) == [t |-> "dict", m |-> m]

HasKey(d, k) == \E i \in 1..Len(d.m) : d.m[i][1] = k

\* dict.get(k, default)
DictGet(d, k, default) ==
    IF HasKey(d, k)
    THEN d.m[CHOOSE i \in 1..Len(d.m) : d.m[i][1] = k][2]
    ELSE default

\* d[k] = v of a dict being built: a repeated key keeps its place and takes
\* the later value.
DictSet(m, k, v) ==
    IF \E i \in 1..Len(m) : m[i][1] = k
    THEN [i \in 1..Len(m) |-> IF m[i][1] = k THEN <<k, v>> ELSE m[i]]
    ELSE Append(m, <<k, v>>)

\* bool(v), as `not v` tests it
Truthy(v) ==
    CASE v.t = "None" -> FALSE
      [] v.t = "int" -> v.i # 0
      [] v.t = "str" -> v.s # ""
      [] v.t = "bool" -> v.b
      [] v.t = "list" -> Len(v.l) > 0
      [] v.t = "dict" -> Len(v.m) > 0

\* str(v) of a database value
PyStr(v) ==
    CASE v.t = "None" -> "None"
      [] v.t = "int" -> IntStr(v.i)
      [] v.t = "str" -> v.s
      [] v.t = "bool" -> IF v.b THEN "True" ELSE "False"

\* ------------------------------------------------------------- json.loads

\* What the json module skips between tokens.
JsonWhitespace == {" ", "\t", "\n", "\r"}

JsonFail == [ok |-> FALSE, val |-> PyNone, next |-> 0]
JsonOk(v, i) == [ok |-> TRUE, val |-> v, next |-> i]

RECURSIVE SkipWs(_, _)
SkipWs(s, i) ==
    IF i <= Len(s) /\ Char(s, i) \in JsonWhitespace THEN SkipWs(s, i + 1) ELSE i

\* The characters of a string literal from position i, after its opening
\* quote.  Of the escapes, \" \\ \/ \n \t \r are modelled; a raw control
\* character inside the literal is an error (strict mode).
RECURSIVE ScanString(_, _, _)
ScanString(s, i, acc) ==
    IF i > Len(s) THEN JsonFail
    ELSE LET c == Char(s, i) IN
         IF c = "\"" THEN JsonOk(PyStrV(acc), i + 1)
         ELSE IF c = "\\" THEN
              IF i + 1 > Len(s) THEN JsonFail
              ELSE LET e == Char(s, i + 1) IN
                   IF e \in {"\"", "\\", "/"} THEN ScanString(s, i + 2, acc \o e)
                   ELSE IF e = "n" THEN ScanString(s, i + 2, acc \o "\n")
                   ELSE IF e = "t" THEN ScanString(s, i + 2, acc \o "\t")
                   ELSE IF e = "r" THEN ScanString(s, i + 2, acc \o "\r")
                   ELSE JsonFail
         ELSE IF c \in {"\n", "\t", "\r"} THEN JsonFail
         ELSE ScanString(s, i + 1, acc \o c)

DigitValue(c) == (CHOOSE d \in 1..10 : Char(Digits, d) = c) - 1
IsDigit(s, i) == i <= Len(s) /\ \E d \in 1..10 : Char(Digits, d) = Char(s, i)

RECURSIVE ScanDigits(_, _, _)
ScanDigits(s, i, acc) ==
    IF IsDigit(s, i) THEN ScanDigits(s, i + 1, 10 * acc + DigitValue(Char(s, i)))
    ELSE JsonOk(PyInt(acc), i)

\* A number at position i: -?(0|[1-9][0-9]*), the integer form (fractions
\* and exponents are outside the texts modelled).
ScanNumber(s, i) ==
    LET neg == StartsWithAt(s, i, "-")
        j == IF neg THEN i + 1 ELSE i
    IN IF ~IsDigit(s, j) THEN JsonFail
       ELSE LET r == IF Char(s, j) = "0" THEN JsonOk(PyInt(0), j + 1)
                     ELSE ScanDigits(s, j, 0)
            IN IF neg THEN JsonOk(PyInt(-r.val.i), r.next) ELSE r

RECURSIVE ParseValue(_, _)
RECURSIVE ParseElements(_, _, _)
RECURSIVE ParseMembers(_, _, _)

\* The value that starts at position i (whitespace already skipped).
ParseValue(s, i) ==
    IF i > Len(s) THEN JsonFail
    ELSE LET c == Char(s, i) IN
         IF c = "\"" THEN ScanString(s, i + 1, "")
         ELSE IF c = "{" THEN
              LET j == SkipWs(s, i + 1) IN
              IF StartsWithAt(s, j, "}") THEN JsonOk(PyDict(<<>>), j + 1)
              ELSE ParseMembers(s, j, <<>>)
         ELSE IF c = "[" THEN
              LET j == SkipWs(s, i + 1) IN
              IF StartsWithAt(s, j, "]") THEN JsonOk(PyList(<<>>), j + 1)
              ELSE ParseElements(s, j, <<>>)
         ELSE IF StartsWithAt(s, i, "null") THEN JsonOk(PyNone, i + 4)
         ELSE IF StartsWithAt(s, i, "true") THEN JsonOk(PyBool(TRUE), i + 4)
         ELSE IF StartsWithAt(s, i, "false") THEN JsonOk(PyBool(FALSE), i + 5)
         ELSE ScanNumber(s, i)

\* The elements of an array from position i, up to its "]".
ParseElements(s, i, acc) ==
    LET r == ParseValue(s, i) IN
    IF ~r.ok THEN JsonFail
    ELSE LET j == SkipWs(s, r.next)
             got == Append(acc, r.val)
         IN IF StartsWithAt(s, j, "]") THEN JsonOk(PyList(got), j + 1)
            ELSE IF StartsWithAt(s, j, ",") THEN ParseElements(s, SkipWs(s, j + 1), got)
            ELSE JsonFail

\* The members of an object from position i, up to its "}".
ParseMembers(s, i, acc) ==
    IF ~StartsWithAt(s, i, "\"") THEN JsonFail
    ELSE LET k == ScanString(s, i + 1, "") IN
         IF ~k.ok THEN JsonFail
         ELSE LET c == SkipWs(s, k.next) IN
              IF ~StartsWithAt(s, c, ":") THEN JsonFail
              ELSE LET r == ParseValue(s, SkipWs(s, c + 1)) IN
                   IF ~r.ok THEN JsonFail
                   ELSE LET j == SkipWs(s, r.next)
                            got == DictSet(acc, k.val.s, r.val)
                        IN IF StartsWithAt(s, j, "}") THEN JsonOk(PyDict(got), j + 1)
                           ELSE IF StartsWithAt(s, j, ",")
                                THEN ParseMembers(s, SkipWs(s, j + 1), got)
                           ELSE JsonFail

\* json.loads(s): ok is FALSE where it raises json.JSONDecodeError.
JsonLoads(s) ==
    LET r == ParseValue(s, SkipWs(s, 1)) IN
    IF r.ok /\ SkipWs(s, r.next) = Len(s) + 1
    THEN [ok |-> TRUE, val |-> r.val]
    ELSE [ok |-> FALSE, val |-> PyNone]

\* ------------------------------------------------------------- json.dumps

RECURSIVE EscapeString(_)
EscapeString(s) ==
    IF Len(s) = 0 THEN ""
    ELSE LET c == Char(s, 1)
             e == IF c = "\"" THEN "\\\""
                  ELSE IF c = "\\" THEN "\\\\"
                  ELSE IF c = "\n" THEN "\\n"
                  ELSE IF c = "\t" THEN "\\t"
                  ELSE IF c = "\r" THEN "\\r"
                  ELSE c
         IN e \o EscapeString(Drop(s, 1))

RECURSIVE Spaces(_)
Spaces(n) == IF n <= 0 THEN "" ELSE " " \o Spaces(n - 1)

RECURSIVE JsonDumpsAt(_, _, _)
RECURSIVE JoinItems(_, _, _, _)

\* The items of a list or dict from the k-th on, each after its separator.
JoinItems(v, k, indent, level) ==
    LET n == IF v.t = "list" THEN Len(v.l) ELSE Len(v.m) IN
    IF k > n THEN ""
    ELSE LET sep == IF indent < 0 THEN (IF k = 1 THEN "" ELSE ", ")
                    ELSE (IF k = 1 THEN "\n" ELSE ",\n") \o Spaces(indent * (level + 1))
             item == IF v.t = "list" THEN JsonDumpsAt(v.l[k], indent, level + 1)
                     ELSE "\"" \o EscapeString(v.m[k][1]) \o "\": "
                          \o JsonDumpsAt(v.m[k][2], indent, level + 1)
         IN sep \o item \o JoinItems(v, k + 1, indent, level)

\* json.dumps(v, indent=indent) at nesting depth level; indent < 0 stands
\* for indent=None.  A tuple serializes as a list does.
JsonDumpsAt(v, indent, level) ==
    CASE v.t = "None" -> "null"
      [] v.t = "int" -> IntStr(v.i)
      [] v.t = "bool" -> (IF v.b THEN "true" ELSE "false")
      [] v.t = "str" -> "\"" \o EscapeString(v.s) \o "\""
      [] v.t \in {"list", "dict"} ->
            LET open == IF v.t = "list" THEN "[" ELSE "{"
                close == IF v.t = "list" THEN "]" ELSE "}"
                n == IF v.t = "list" THEN Len(v.l) ELSE Len(v.m)
            IN IF n = 0 THEN open \o close
               ELSE open \o JoinItems(v, 1, indent, level)
                    \o (IF indent < 0 THEN "" ELSE "\n" \o Spaces(indent * level))
                    \o close

\* json.dumps(v)
JsonDumps(v) == JsonDumpsAt(v, -1, 0)

\* json.dumps(v, indent=2)
JsonDumpsIndent2(v) == JsonDumpsAt(v, 2, 0)

\* ------------------------------------------------------------------ state

VARIABLES
    variant,          \* which of the two programs runs: "gemini" or "mistral"
    environ,          \* the process environment (after load_dotenv): name -> value
    schema_file,      \* the data dictionary file: [exists, content]
    completions,      \* the backend's behaviour on each prompt: [sql, answer]
    pc,               \* where control is
    DATA_DICTIONARY,  \* the loaded data dictionary (PyNone until loaded)
    user_input,       \* the loop's local: the line read
    sql,              \* the loop's local: what prompt_to_sql returned
    data,             \* the loop's local: what run_sql_query returned
    answer,           \* the loop's local: what generate_final_answer returned
    err,              \* the exception being raised, or the one that ended the process
    printed,          \* the last thing the loop printed: [kind, text]
    openConns,        \* database connections opened and not closed
    raw_text,         \* prompt_to_sql's local: the completion text
    result_str,       \* generate_final_answer's local: the result as embedded
    trace             \* the calls of the current turn, in order

vars == <<variant, environ, schema_file, completions, pc, DATA_DICTIONARY, user_input, sql, data,
          answer, err, printed, openConns, raw_text, result_str, trace>>

Variants == {"gemini", "mistral"}

\* The grave accent, which a TLA+ string cannot hold, is written as an
\* apostrophe in every text of the model: Fence is the code fence marker.
Fence == "'''"

NoError == [type |-> "", msg |-> ""]
Error(type, msg) == [type |-> type, msg |-> msg]

\* What a call did: the exception it raised (NoError if it returned), <<v>>
\* for a returned v, and the generation requests it issued, in order.
Returned(v, requests) == [raised |-> NoError, ret |-> <<v>>, requests |-> requests]
Raised(e, requests) == [raised |-> e, ret |-> <<>>, requests |-> requests]

Request(prompt, response) == [prompt |-> prompt, response |-> response]

\* ------------------------------------------------------------ environment

Unset == PyNone

\* os.getenv(name)
Getenv(name) == IF name \in DOMAIN environ THEN environ[name] ELSE Unset

EnvValues == {Unset, PyStrV(""), PyStrV("key")}

\* The variables each variant reads its credentials from.
CredentialNames(v) ==
    IF v = "gemini" THEN {"GEMINI_API_KEY"}
    ELSE {"AWS_ACCESS_KEY_ID", "AWS_SECRET_ACCESS_KEY"}

Environments(v) == [CredentialNames(v) -> EnvValues]

GoodSchema == "{\"loans\": [\"amount\"]}"
BadSchema == "{\"loans\": "

SchemaFiles ==
    { [exists |-> FALSE, content |-> ""],
      [exists |-> TRUE, content |-> BadSchema],
      [exists |-> TRUE, content |-> GoodSchema] }

\* ---------------------------------------------------------------- startup

\* A slip: the credentials tested for being set, not for being non-empty,
\* and the second AWS one not at all.
CredentialsMissingUnset ==
    IF variant = "gemini"
    THEN Getenv("GEMINI_API_KEY") = Unset
    ELSE Getenv("AWS_ACCESS_KEY_ID") = Unset

\* The test each program makes of its credentials before anything else.
CredentialsMissing ==
    IF variant = "gemini"
    THEN ~Truthy(Getenv("GEMINI_API_KEY"))
    ELSE ~Truthy(Getenv("AWS_ACCESS_KEY_ID")) \/ ~Truthy(Getenv("AWS_SECRET_ACCESS_KEY"))

CredentialsError ==
    IF variant = "gemini"
    THEN Error("ValueError", "GEMINI_API_KEY not set in environment or Dockerfile.")
    ELSE Error("ValueError", "AWS credentials not found in .env")

CheckCredentials ==
    /\ pc = "check_credentials"
    /\ IF CredentialsMissing
       THEN pc' = "aborted" /\ err' = CredentialsError
       ELSE pc' = "load_data_dictionary" /\ err' = err
    /\ UNCHANGED <<variant, environ, schema_file, completions, DATA_DICTIONARY, user_input, sql, data,
                   answer, printed, openConns, raw_text, result_str, trace>>

\* open() and json.load() of the data dictionary: FileNotFoundError is
\* caught and raised again, json.JSONDecodeError is not caught.
LoadOutcome ==
    IF ~schema_file.exists
    THEN Raised(Error("FileNotFoundError",
                      "nbfc_data_dictionary.json not found in project folder."), <<>>)
    ELSE LET parsed == JsonLoads(schema_file.content) IN
         IF parsed.ok THEN Returned(parsed.val, <<>>)
         ELSE Raised(Error("JSONDecodeError", "invalid data dictionary"), <<>>)

LoadDataDictionary ==
    /\ pc = "load_data_dictionary"
    /\ IF LoadOutcome.raised # NoError
       THEN /\ pc' = "aborted"
            /\ err' = LoadOutcome.raised
            /\ DATA_DICTIONARY' = DATA_DICTIONARY
       ELSE /\ pc' = "input"
            /\ err' = err
            /\ DATA_DICTIONARY' = LoadOutcome.ret[1]
    /\ UNCHANGED <<variant, environ, schema_file, completions, user_input, sql, data, answer, printed,
                   openConns, raw_text, result_str, trace>>

\* ------------------------------------------------------------- LLM client

\* What a backend may do: the texts it may complete with, and whether it may
\* also fail to complete.
Backend(texts, faulty) == [texts |-> texts, faulty |-> faulty]

\* A generate_content response: it raised, or it carries candidates, each
\* a list of content parts (texts).
GeminiResponse(raise, candidates) == [raise |-> raise, candidates |-> candidates]

\* The responses of a backend that completes with c.texts; a faulty one may
\* also raise, or return no candidate, or a candidate with no content part.
GeminiResponses(c) ==
    (IF c.faulty
     THEN { GeminiResponse(Error("GoogleAPIError", "generate_content failed"), <<>>),
            GeminiResponse(NoError, <<>>),
            GeminiResponse(NoError, << [parts |-> <<>>] >>) }
     ELSE {})
    \cup { GeminiResponse(NoError, << [parts |-> <<t>>] >>) : t \in c.texts }

\* not response.candidates or not response.candidates[0].content.parts
GeminiBlocked(response) ==
    Len(response.candidates) = 0 \/ Len(response.candidates[1].parts) = 0

\* response.candidates[0].content.parts[0].text
GeminiText(response) == response.candidates[1].parts[1]

\* An invoke_model response: it raised, or its body parses to result.
MistralResponse(raise, result) == [raise |-> raise, result |-> result]

MistralResult(outputs) == PyDict(<< <<"results", PyList(outputs)>> >>)

MistralText(t) ==
    MistralResponse(NoError, MistralResult(<< PyDict(<< <<"outputText", PyStrV(t)>> >>) >>))

\* The responses of a backend that completes with c.texts; a faulty one may
\* also raise, or return no results, or a result with no or an empty text.
MistralResponses(c) ==
    (IF c.faulty
     THEN { MistralResponse(Error("ClientError", "invoke_model failed"), PyNone),
            MistralResponse(NoError, PyDict(<<>>)),
            MistralResponse(NoError, MistralResult(<<>>)),
            MistralResponse(NoError, MistralResult(<< PyDict(<<>>) >>)),
            MistralText("") }
     ELSE {})
    \cup { MistralText(t) : t \in c.texts }

\* call_mistral's last two lines, on the response to its one request:
\* result.get("results", [{}])[0].get("outputText", "").strip()
MistralOutput(prompt, response) ==
    LET requests == << Request(prompt, response) >> IN
    IF response.raise # NoError THEN Raised(response.raise, requests)
    ELSE LET results == DictGet(response.result, "results", PyList(<< PyDict(<<>>) >>)) IN
         IF Len(results.l) = 0
         THEN Raised(Error("IndexError", "list index out of range"), requests)
         ELSE Returned(Strip(DictGet(results.l[1], "outputText", PyStrV("")).s), requests)

\* call_mistral(prompt): what it may do, over the responses of backend c.
call_mistral(prompt, c) ==
    { MistralOutput(prompt, response) : response \in MistralResponses(c) }

\* ---------------------------------------------------------- prompt_to_sql

\* The prompts are their template's name and the texts embedded in it.
SqlPrompt(user_prompt) ==
    [template |-> "sql_generation",
     schema |-> JsonDumpsIndent2(DATA_DICTIONARY),
     request |-> user_prompt]

\* base_prompt.replace("largest loan", "highest loan amount"): the fixed
\* text of the template holds no "largest loan" and none can begin in one
\* part of the prompt and end in the next, so the replacement is that of
\* the embedded texts.
RetryPrompt(base_prompt) ==
    [base_prompt EXCEPT
       !.schema = Replace(@, "largest loan", "highest loan amount"),
       !.request = Replace(@, "largest loan", "highest loan amount")]

\* A slip: the bare fence removed first, which leaves the language tags.
CleanTextBareFirst(text) ==
    Strip(Replace(Replace(Replace(text, Fence, ""), Fence \o "json", ""), Fence \o "sql", ""))

\* raw_text.replace("```json", "").replace("```sql", "").replace("```", "").strip()
CleanText(text) ==
    Strip(Replace(Replace(Replace(text, Fence \o "json", ""), Fence \o "sql", ""), Fence, ""))

\* The try statement after the cleaning: json.loads, parsed.get("sql", "")
\* and .strip(), with only json.JSONDecodeError caught.
ExtractSql(cleaned_text, requests) ==
    LET parsed == JsonLoads(cleaned_text) IN
    IF ~parsed.ok THEN Returned(cleaned_text, requests)
    ELSE IF parsed.val.t # "dict"
    THEN Raised(Error("AttributeError", "object has no attribute 'get'"), requests)
    ELSE LET sql_query == DictGet(parsed.val, "sql", PyStrV("")) IN
         IF sql_query.t # "str"
         THEN Raised(Error("AttributeError", "object has no attribute 'strip'"), requests)
         ELSE Returned(Strip(sql_query.s), requests)

WithRawText(o, text) ==
    [raised |-> o.raised, ret |-> o.ret, requests |-> o.requests, raw_text |-> text]

\* prompt_to_sql from the completion text on.
SqlFromText(text, requests) == WithRawText(ExtractSql(CleanText(text), requests), text)

NoSqlError == Error("ValueError", "No valid SQL from Gemini after retry.")

\* The gemini variant after its first response: a blocked one is followed
\* by one more request, with the rewritten prompt.
GeminiSqlAfterFirst(base_prompt, first, c) ==
    LET one == << Request(base_prompt, first) >> IN
    IF first.raise # NoError THEN { WithRawText(Raised(first.raise, one), "") }
    ELSE IF ~GeminiBlocked(first) THEN { SqlFromText(GeminiText(first), one) }
    ELSE { LET two == Append(one, Request(RetryPrompt(base_prompt), second)) IN
           IF second.raise # NoError THEN WithRawText(Raised(second.raise, two), "")
           ELSE IF GeminiBlocked(second) THEN WithRawText(Raised(NoSqlError, two), "")
           ELSE SqlFromText(GeminiText(second), two)
           : second \in GeminiResponses(c) }

GeminiPromptToSql(user_prompt, c) ==
    UNION { GeminiSqlAfterFirst(SqlPrompt(user_prompt), first, c)
            : first \in GeminiResponses(c) }

\* The mistral variant: one call_mistral, whatever it returns is cleaned.
MistralPromptToSql(user_prompt, c) ==
    { IF o.raised # NoError THEN WithRawText(o, "") ELSE SqlFromText(o.ret[1], o.requests)
      : o \in call_mistral(SqlPrompt(user_prompt), c) }

\* prompt_to_sql(user_prompt): what it may do, over the responses of
\* backend c.
prompt_to_sql(user_prompt, c) ==
    IF variant = "gemini" THEN GeminiPromptToSql(user_prompt, c)
    ELSE MistralPromptToSql(user_prompt, c)

\* ---------------------------------------------------------- run_sql_query

\* A query result is a sequence of rows, a row a sequence of column values.
DbError == Error("OperationalError", "near \"SELEC\": syntax error")

\* run_sql_query(sql_query): connect, execute, fetchall, close.  execute or
\* fetchall may raise, and then close is not reached.
run_sql_query(sql_query, results) ==
    { [raised |-> NoError, ret |-> <<rows>>, requests |-> <<>>, closed |-> TRUE]
      : rows \in results }
    \cup { [raised |-> DbError, ret |-> <<>>, requests |-> <<>>, closed |-> FALSE] }

\* -------------------------------------------------- generate_final_answer

\* The rows as json.dumps sees them: a list of tuples.
RowsValue(query_result) ==
    PyList([i \in 1..Len(query_result) |-> PyList(query_result[i])])

\* A slip: the number of columns not tested.
ResultStrOneRow(query_result) ==
    IF Len(query_result) = 1
    THEN PyStr(query_result[1][1])
    ELSE JsonDumps(RowsValue(query_result))

\* The if statement that opens generate_final_answer.
ResultStr(query_result) ==
    IF Len(query_result) = 1 /\ Len(query_result[1]) = 1
    THEN PyStr(query_result[1][1])
    ELSE JsonDumps(RowsValue(query_result))

AnswerPrompt(user_prompt, text) ==
    [template |-> "final_answer", request |-> user_prompt, result |-> text]

NoAnswerError == Error("ValueError", "No valid answer from Gemini.")

GeminiAnswer(answer_prompt, response) ==
    LET requests == << Request(answer_prompt, response) >> IN
    IF response.raise # NoError THEN Raised(response.raise, requests)
    ELSE IF GeminiBlocked(response) THEN Raised(NoAnswerError, requests)
    ELSE Returned(GeminiText(response), requests)

\* generate_final_answer(user_prompt, query_result): what it may do, over
\* the responses of backend c.
generate_final_answer(user_prompt, query_result, c) ==
    LET answer_prompt == AnswerPrompt(user_prompt, ResultStr(query_result)) IN
    IF variant = "gemini"
    THEN { GeminiAnswer(answer_prompt, response) : response \in GeminiResponses(c) }
    ELSE call_mistral(answer_prompt, c)

\* ------------------------------------------------------ the world outside

UpperChar(c) ==
    IF \E i \in 1..26 : Char(LowerLetters, i) = c
    THEN Char(UpperLetters, CHOOSE i \in 1..26 : Char(LowerLetters, i) = c)
    ELSE c

\* Every way of writing w's letters in upper or lower case.
RECURSIVE CaseVariants(_)
CaseVariants(w) ==
    IF Len(w) = 0 THEN {""}
    ELSE { c \o rest : c \in {Char(w, 1), UpperChar(Char(w, 1))},
                       rest \in CaseVariants(Drop(w, 1)) }

\* The words that end the loop.
ExitWords == {"exit", "quit"}

\* The lines a user may type.
QuestionLines == {"", "exit ", "show the largest loan"}
InputLines == UNION { CaseVariants(w) : w \in ExitWords } \cup QuestionLines

\* The completions the model may give to the SQL prompt, and to the answer
\* prompt.
SqlTexts ==
    { Fence \o "json\n{\"sql\": \"SELECT 1\"}\n" \o Fence,
      "SELECT 3",
      "42",
      "{\"sql\": null}",
      "{}" }
AnswerTexts == {" The answer is 42.\n"}

\* The results the database may give.
DbResults ==
    { <<>>,
      << <<PyInt(42)>> >>,
      << <<PyInt(1), PyStrV("a")>>, <<PyInt(2), PyStrV("b")>> >> }

\* --------------------------------------------------------------- the loop

Event(op, args, o) ==
    [op |-> op, args |-> args, raised |-> o.raised, ret |-> o.ret, requests |-> o.requests]

\* A slip: the line compared as typed.
ExitRequestedExact(line) == line \in ExitWords

\* user_input.lower() in ["exit", "quit"]
ExitRequested(line) == Lower(line) \in ExitWords

\* input(...) and the test of the line: a line read, or end of input, which
\* raises EOFError outside the try statement.
ReadInput ==
    /\ pc = "input"
    /\ \/ \E line \in InputLines :
             /\ user_input' = line
             /\ trace' = << Event("input", <<>>, Returned(line, <<>>)) >>
             /\ pc' = IF ExitRequested(line) THEN "terminated" ELSE "prompt_to_sql"
             /\ err' = err
       \/ /\ user_input' = user_input
          /\ trace' = << Event("input", <<>>, Raised(Error("EOFError", "EOF when reading a line"), <<>>)) >>
          /\ pc' = "aborted"
          /\ err' = Error("EOFError", "EOF when reading a line")
    /\ UNCHANGED <<variant, environ, schema_file, completions, DATA_DICTIONARY, sql, data, answer,
                   printed, openConns, raw_text, result_str>>

\* sql = prompt_to_sql(user_input)
CallPromptToSql ==
    /\ pc = "prompt_to_sql"
    /\ \E o \in prompt_to_sql(user_input, completions.sql) :
          /\ trace' = Append(trace, Event("prompt_to_sql", <<user_input>>, o))
          /\ raw_text' = o.raw_text
          /\ IF o.raised # NoError
             THEN pc' = "except" /\ err' = o.raised /\ sql' = sql
             ELSE pc' = "run_sql_query" /\ err' = err /\ sql' = o.ret[1]
    /\ UNCHANGED <<variant, environ, schema_file, completions, DATA_DICTIONARY, user_input, data,
                   answer, printed, openConns, result_str>>

\* A slip: the question passed on in place of the SQL.
QueryArgumentInput == user_input

\* What the loop passes to run_sql_query.
QueryArgument == sql

\* data = run_sql_query(sql)
CallRunSqlQuery ==
    /\ pc = "run_sql_query"
    /\ \E o \in run_sql_query(QueryArgument, DbResults) :
          /\ o.closed \/ openConns < MaxOpen
          /\ trace' = Append(trace, Event("run_sql_query", <<QueryArgument>>, o))
          /\ openConns' = IF o.closed THEN openConns ELSE openConns + 1
          /\ IF o.raised # NoError
             THEN pc' = "except" /\ err' = o.raised /\ data' = data
             ELSE pc' = "generate_final_answer" /\ err' = err /\ data' = o.ret[1]
    /\ UNCHANGED <<variant, environ, schema_file, completions, DATA_DICTIONARY, user_input, sql,
                   answer, printed, raw_text, result_str>>

\* What the loop passes to generate_final_answer.
AnswerArguments == <<user_input, data>>

\* answer = generate_final_answer(user_input, data)
CallGenerateFinalAnswer ==
    /\ pc = "generate_final_answer"
    /\ \E o \in generate_final_answer(AnswerArguments[1], AnswerArguments[2], completions.answer) :
          /\ trace' = Append(trace, Event("generate_final_answer", AnswerArguments, o))
          /\ result_str' = ResultStr(AnswerArguments[2])
          /\ IF o.raised # NoError
             THEN pc' = "except" /\ err' = o.raised /\ answer' = answer
             ELSE pc' = "print_answer" /\ err' = err /\ answer' = o.ret[1]
    /\ UNCHANGED <<variant, environ, schema_file, completions, DATA_DICTIONARY, user_input, sql, data,
                   printed, openConns, raw_text>>

\* print("\n[ANSWER]:", answer)
PrintAnswer ==
    /\ pc = "print_answer"
    /\ printed' = [kind |-> "answer", text |-> answer]
    /\ trace' = Append(trace, Event("print_answer", <<answer>>, Returned(PyNone, <<>>)))
    /\ pc' = "input"
    /\ UNCHANGED <<variant, environ, schema_file, completions, DATA_DICTIONARY, user_input, sql, data,
                   answer, err, openConns, raw_text, result_str>>

\* A slip: `except ValueError`.
CaughtValueErrorOnly(e) == e.type = "ValueError"

\* The classes `except Exception` catches, of those raised in the model.
Caught(e) == e.type \notin {"KeyboardInterrupt", "SystemExit", "GeneratorExit"}

\* except Exception as e: print("Error:", e)
HandleError ==
    /\ pc = "except"
    /\ IF Caught(err)
       THEN /\ printed' = [kind |-> "error", text |-> err.msg]
            /\ trace' = Append(trace, Event("print_error", <<err>>, Returned(PyNone, <<>>)))
            /\ pc' = "input"
            /\ err' = NoError
       ELSE /\ printed' = printed
            /\ trace' = trace
            /\ pc' = "aborted"
            /\ err' = err
    /\ UNCHANGED <<variant, environ, schema_file, completions, DATA_DICTIONARY, user_input, sql, data,
                   answer, openConns, raw_text, result_str>>

\* The runtime finalizes the connections no frame refers to any more, at a
\* time of its choosing; while the exception is being handled its traceback
\* still refers to the frame that opened the last one.
CollectGarbage ==
    /\ pc \in {"input", "prompt_to_sql", "run_sql_query", "generate_final_answer", "print_answer"}
    /\ openConns > 0
    /\ openConns' = 0
    /\ UNCHANGED <<variant, environ, schema_file, completions, pc, DATA_DICTIONARY, user_input, sql,
                   data, answer, err, printed, raw_text, result_str, trace>>

\* ----------------------------------------------------------- specification

Init ==
    /\ variant \in Variants
    /\ environ \in Environments(variant)
    /\ schema_file \in SchemaFiles
    /\ completions = [sql |-> Backend(SqlTexts, TRUE), answer |-> Backend(AnswerTexts, TRUE)]
    /\ pc = "check_credentials"
    /\ DATA_DICTIONARY = PyNone
    /\ user_input = ""
    /\ sql = ""
    /\ data = <<>>
    /\ answer = ""
    /\ err = NoError
    /\ printed = [kind |-> "none", text |-> ""]
    /\ openConns = 0
    /\ raw_text = ""
    /\ result_str = ""
    /\ trace = <<>>

Next ==
    \/ CheckCredentials
    \/ LoadDataDictionary
    \/ ReadInput
    \/ CallPromptToSql
    \/ CallRunSqlQuery
    \/ CallGenerateFinalAnswer
    \/ PrintAnswer
    \/ HandleError
    \/ CollectGarbage

Spec == Init /\ [][Next]_vars

\* ---------------------------------------- prompt_to_sql on a given completion

\* The pieces the completion texts of SpecSql are made of.
Pieces ==
    { Fence \o "json", Fence \o "sql", Fence, "'", "\n",
      "{\"sql\": \"SELECT 1\"}", "{\"sql\": \" SELECT 2 \"}", "SELECT 3",
      "42", "{\"sql\": null}", "{}" }

\* The texts of at most n pieces.
RECURSIVE Concats(_)
Concats(n) ==
    IF n = 0 THEN {""}
    ELSE Concats(n - 1) \cup { p \o t : p \in Pieces, t \in Concats(n - 1) }

AQuestion == "show the largest loan"

\* The loop about to call prompt_to_sql, with a backend that completes with
\* one given text.
InitSql ==
    /\ variant \in Variants
    /\ environ = [name \in CredentialNames(variant) |-> PyStrV("key")]
    /\ schema_file = [exists |-> TRUE, content |-> GoodSchema]
    /\ \E t \in Concats(MaxPieces) :
          completions = [sql |-> Backend({t}, FALSE), answer |-> Backend(AnswerTexts, TRUE)]
    /\ pc = "prompt_to_sql"
    /\ DATA_DICTIONARY = JsonLoads(GoodSchema).val
    /\ user_input = AQuestion
    /\ sql = ""
    /\ data = <<>>
    /\ answer = ""
    /\ err = NoError
    /\ printed = [kind |-> "none", text |-> ""]
    /\ openConns = 0
    /\ raw_text = ""
    /\ result_str = ""
    /\ trace = << Event("input", <<>>, Returned(AQuestion, <<>>)) >>

SpecSql == InitSql /\ [][CallPromptToSql]_vars

\* --------------------------------- generate_final_answer on a given result

\* The column values the rows of SpecAnswer are cut from.
ColumnValues ==
    << PyInt(1), PyStrV("a"), PyInt(2), PyStrV("b"),
       PyInt(42), PyNone, PyStrV("x\"y"), PyInt(-7) >>

\* The rows of w columns: w values in a row of ColumnValues, from any place.
RowsOfWidth(w) ==
    { [c \in 1..w |-> ColumnValues[((k + c - 2) % Len(ColumnValues)) + 1]]
      : k \in 1..Len(ColumnValues) }

\* The results of at most MaxRows rows, all of one width of at most MaxCols.
QueryResults ==
    UNION { [1..n -> RowsOfWidth(w)] : n \in 0..MaxRows, w \in 1..MaxCols }

\* The loop about to call generate_final_answer on a given result.
InitAnswer ==
    /\ variant \in Variants
    /\ environ = [name \in CredentialNames(variant) |-> PyStrV("key")]
    /\ schema_file = [exists |-> TRUE, content |-> GoodSchema]
    /\ completions = [sql |-> Backend(SqlTexts, TRUE), answer |-> Backend(AnswerTexts, FALSE)]
    /\ pc = "generate_final_answer"
    /\ DATA_DICTIONARY = JsonLoads(GoodSchema).val
    /\ user_input = AQuestion
    /\ sql = "SELECT 3"
    /\ data \in QueryResults
    /\ answer = ""
    /\ err = NoError
    /\ printed = [kind |-> "none", text |-> ""]
    /\ openConns = 0
    /\ raw_text = "SELECT 3"
    /\ result_str = ""
    /\ trace = << Event("input", <<>>, Returned(AQuestion, <<>>)),
                  Event("prompt_to_sql", <<AQuestion>>, Returned("SELECT 3", <<>>)),
                  Event("run_sql_query", <<"SELECT 3">>, Returned(data, <<>>)) >>

SpecAnswer == InitAnswer /\ [][CallGenerateFinalAnswer]_vars

\* ------------------------------------------------------------- properties

\* The calls of op in the current turn.
Calls(op) == { i \in 1..Len(trace) : trace[i].op = op }

TurnOrder ==
    <<"input", "prompt_to_sql", "run_sql_query", "generate_final_answer", "print_answer">>

PipelinePcs == {"prompt_to_sql", "run_sql_query", "generate_final_answer", "print_answer"}

\* <<t>> if the response carries a usable completion, of text t; <<>> if the
\* backend answered without one; requires a response that did not raise.
CompletionOf(response) ==
    IF variant = "gemini"
    THEN IF Len(response.candidates) > 0 /\ Len(response.candidates[1].parts) > 0
         THEN << response.candidates[1].parts[1] >>
         ELSE <<>>
    ELSE IF /\ HasKey(response.result, "results")
            /\ Len(DictGet(response.result, "results", PyNone).l) > 0
            /\ HasKey(DictGet(response.result, "results", PyNone).l[1], "outputText")
            /\ DictGet(DictGet(response.result, "results", PyNone).l[1], "outputText", PyNone).s # ""
         THEN << DictGet(DictGet(response.result, "results", PyNone).l[1], "outputText", PyNone).s >>
         ELSE <<>>

Answered(response) == response.raise = NoError
Usable(response) == Answered(response) /\ CompletionOf(response) # <<>>
Empty(response) == Answered(response) /\ CompletionOf(response) = <<>>

\* C1: every call of run_sql_query closes the connection it opened before
\* control leaves the call, whether it returns or raises: no connection is
\* open while the loop is anywhere outside run_sql_query, Reading included.
C1_NoOpenConnection == openConns = 0

\* C2: a failure of SQL synthesis, query execution or answer synthesis never
\* ends the loop: control leaves Processing only for Reading or for the
\* handler, and the handler prints the error and returns to Reading, where
\* the next line can be read.
C2_LoopSurvivesFailure ==
    /\ [](pc = "input" => ENABLED ReadInput)
    /\ [][ /\ (pc \in PipelinePcs) => (pc' \in PipelinePcs \cup {"input", "except"})
           /\ (pc \in PipelinePcs /\ trace' # trace /\ trace'[Len(trace')].raised # NoError)
                 => (pc' = "except" /\ err' = trace'[Len(trace')].raised)
           /\ (pc = "except")
                 => (pc' = "input" /\ printed' = [kind |-> "error", text |-> err.msg]) ]_vars

C2_Witness ==
    /\ pc = "input"
    /\ Len(trace) = 5
    /\ trace[4].op = "generate_final_answer" /\ trace[4].raised # NoError
    /\ trace[5].op = "print_error"
    /\ printed.kind = "error"

\* Whether line is "exit" or "quit" up to the case of its letters.
IsExitWord(line) ==
    \E w \in {"exit", "quit"} :
       /\ Len(line) = Len(w)
       /\ \A i \in 1..Len(w) : Char(line, i) \in {Char(w, i), UpperChar(Char(w, i))}

\* C3: the loop terminates only from Reading, on a line that is "exit" or
\* "quit" up to case, with no pipeline stage invoked for that line; every
\* other line read starts Processing.
C3_ExitOnlyOnKeyword ==
    /\ pc = "terminated" =>
          /\ Len(trace) = 1 /\ trace[1].op = "input" /\ trace[1].ret = <<user_input>>
          /\ IsExitWord(user_input)
    /\ (trace # <<>> /\ trace[1].raised = NoError) =>
          /\ trace[1].ret = <<user_input>>
          /\ IsExitWord(user_input) => (pc = "terminated" /\ Len(trace) = 1)
          /\ ~IsExitWord(user_input) =>
                /\ pc \in PipelinePcs \cup {"except", "input"}
                /\ Len(trace) = 1 => pc = "prompt_to_sql"
                /\ Len(trace) > 1 => trace[2].op = "prompt_to_sql"

C3_Witness == pc = "terminated" /\ user_input = "QuIt" /\ printed.kind = "answer"

\* C4: prompt_to_sql issues one generation request when the first completion
\* is usable and exactly two when it is empty; after an empty first one it
\* returns the SQL of a usable second one and fails with the "no SQL" error
\* on an empty second one, never returning a string then.
C4_ExactlyOneRetry ==
    \A i \in Calls("prompt_to_sql") :
       LET e == trace[i] IN
       /\ Len(e.requests) \in {1, 2}
       /\ Usable(e.requests[1].response) => Len(e.requests) = 1
       /\ Empty(e.requests[1].response) =>
             /\ Len(e.requests) = 2
             /\ e.requests[2].prompt = RetryPrompt(e.requests[1].prompt)
             /\ Empty(e.requests[2].response) => (e.raised.type = "ValueError" /\ e.ret = <<>>)
             /\ Usable(e.requests[2].response) =>
                   e = Event("prompt_to_sql", e.args,
                             ExtractSql(CleanText(CompletionOf(e.requests[2].response)[1]), e.requests))

\* C5: generate_final_answer issues exactly one generation request and, when
\* the backend answers it without a usable completion, fails with the "no
\* answer" error rather than returning an answer.
C5_NoAnswerIsAnError ==
    \A i \in Calls("generate_final_answer") :
       LET e == trace[i] IN
       /\ Len(e.requests) = 1
       /\ Empty(e.requests[1].response) => (e.raised.type = "ValueError" /\ e.ret = <<>>)

\* C6: in every turn the stages run in the order prompt_to_sql,
\* run_sql_query, generate_final_answer, each at most once and each only
\* after the one before it returned; run_sql_query gets exactly the string
\* prompt_to_sql returned, generate_final_answer exactly the turn's question
\* and the rows run_sql_query returned; the answer printed is the one
\* returned; and a line is read only when the turn before it has finished.
C6_StagesInOrder ==
    /\ \A i \in 1..Len(trace) :
          \/ /\ i <= 5
             /\ trace[i].op = TurnOrder[i]
             /\ i > 1 => trace[i - 1].raised = NoError
             /\ i = 2 => trace[i].args = << trace[1].ret[1] >>
             /\ i = 3 => trace[i].args = << trace[2].ret[1] >>
             /\ i = 4 => trace[i].args = << trace[1].ret[1], trace[3].ret[1] >>
             /\ i = 5 => trace[i].args = << trace[4].ret[1] >>
          \/ /\ i > 2
             /\ i = Len(trace)
             /\ trace[i].op = "print_error"
             /\ trace[i - 1].raised # NoError
             /\ trace[i - 1].op \in {"prompt_to_sql", "run_sql_query", "generate_final_answer"}
    /\ (pc = "input" /\ trace # <<>>) => trace[Len(trace)].op \in {"print_answer", "print_error"}
    /\ (trace # <<>> /\ trace[Len(trace)].op = "print_answer") =>
          printed = [kind |-> "answer", text |-> trace[4].ret[1]]
    /\ pc = "run_sql_query" => Len(trace) = 2
    /\ pc = "generate_final_answer" => Len(trace) = 3
    /\ pc = "print_answer" => Len(trace) = 4

C6_Witness ==
    /\ pc = "input"
    /\ Len(trace) = 5
    /\ trace[5].op = "print_answer"
    /\ trace[3].args = <<"SELECT 1">>
    /\ Len(trace[4].args[2]) = 2

\* The credentials the variant needs are not all there: one is unset or empty.
CredentialsAbsent ==
    \E name \in CredentialNames(variant) : environ[name] \in {Unset, PyStrV("")}

SchemaUnusable == ~schema_file.exists \/ schema_file.content = BadSchema

\* C7: with credentials absent, or the schema file missing or unparsable,
\* the program never reaches Reading: it reads no line, calls neither the
\* model nor the database, and aborts with a startup error.
C7_NoLoopWithoutStartup ==
    (CredentialsAbsent \/ SchemaUnusable) =>
       /\ pc \in {"check_credentials", "load_data_dictionary", "aborted"}
       /\ trace = <<>>
       /\ openConns = 0
       /\ printed.kind = "none"
       /\ pc = "load_data_dictionary" => ~CredentialsAbsent
       /\ pc = "aborted" =>
             err.type = (IF CredentialsAbsent THEN "ValueError"
                         ELSE IF ~schema_file.exists THEN "FileNotFoundError"
                         ELSE "JSONDecodeError")
       /\ pc # "aborted" => ENABLED (CheckCredentials \/ LoadDataDictionary)

C7_Witness ==
    /\ pc = "aborted"
    /\ variant = "mistral"
    /\ environ["AWS_ACCESS_KEY_ID"] = PyStrV("key")
    /\ environ["AWS_SECRET_ACCESS_KEY"] = PyStrV("key")
    /\ schema_file.content = BadSchema

\* C10: once the backend has given a usable completion, prompt_to_sql
\* returns a string and raises nothing, whatever the completion holds.
C10_CompletionAlwaysYieldsSql ==
    \A i \in Calls("prompt_to_sql") :
       LET e == trace[i]
           last == e.requests[Len(e.requests)].response
       IN Usable(last) => (e.raised = NoError /\ Len(e.ret) = 1)

Least(S) == CHOOSE x \in S : \A y \in S : x <= y
Greatest(S) == CHOOSE x \in S : \A y \in S : x >= y

\* s without the occurrences of marker m, found from the left.
RECURSIVE WithoutMarker(_, _)
WithoutMarker(s, m) ==
    LET found == { i \in 1..Len(s) : StartsWithAt(s, i, m) } IN
    IF found = {} THEN s
    ELSE SubSeq(s, 1, Least(found) - 1)
         \o WithoutMarker(SubSeq(s, Least(found) + Len(m), Len(s)), m)

\* s from its first to its last character that is not white space.
Trimmed(s) ==
    LET kept == { i \in 1..Len(s) : Char(s, i) \notin {" ", "\n", "\t", "\r"} } IN
    IF kept = {} THEN "" ELSE SubSeq(s, Least(kept), Greatest(kept))

\* The reference cleaning: the json fences, the sql fences and the bare
\* fences taken out, and the rest trimmed.
ReferenceClean(t) ==
    Trimmed(WithoutMarker(WithoutMarker(WithoutMarker(t, Fence \o "json"), Fence \o "sql"), Fence))

FencedExample == Fence \o "json" \o "{\"sql\": \"SELECT 1\"}" \o Fence

\* C8: on a usable completion prompt_to_sql returns the reference
\* extraction: the text with the fence markers removed and trimmed (it holds
\* no fence any more); if that parses as a JSON object with a string field
\* sql, the field trimmed, so that the fenced {"sql": "SELECT 1"} gives
\* exactly SELECT 1; if it does not parse as JSON, the cleaned text itself.
C8_SqlIsReferenceExtraction ==
    \A i \in Calls("prompt_to_sql") :
       LET e == trace[i]
           last == e.requests[Len(e.requests)].response
       IN Usable(last) =>
             LET t == CompletionOf(last)[1]
                 c == ReferenceClean(t)
                 p == JsonLoads(c)
             IN /\ \A k \in 1..Len(c) : ~StartsWithAt(c, k, Fence)
                /\ ~p.ok => (e.raised = NoError /\ e.ret = <<c>>)
                /\ (p.ok /\ p.val.t = "dict" /\ HasKey(p.val, "sql")
                         /\ DictGet(p.val, "sql", PyNone).t = "str")
                      => (e.raised = NoError /\ e.ret = << Trimmed(DictGet(p.val, "sql", PyNone).s) >>)
                /\ t = FencedExample => e.ret = <<"SELECT 1">>

C8_Witness ==
    /\ pc = "run_sql_query"
    /\ completions.sql.texts = {FencedExample}
    /\ sql = "SELECT 1"

\* Whether text r is the string form of the database value v.
IsStringFormOf(r, v) ==
    CASE v.t = "int" -> Trimmed(r) = r /\ JsonLoads(r) = [ok |-> TRUE, val |-> v]
      [] v.t = "str" -> r = v.s
      [] v.t = "None" -> r = "None"

\* C9: the result text embedded in the answer prompt is the string form of
\* the single value when the result is one row of one column ([[42]] embeds
\* 42), and otherwise a JSON serialization of the whole result, which parses
\* back to it ([[1, "a"], [2, "b"]] embeds the array of both rows).
C9_ResultEmbedding ==
    \A i \in Calls("generate_final_answer") :
       LET e == trace[i]
           rows == e.args[2]
           r == e.requests[1].prompt.result
       IN /\ e.requests[1].prompt.request = e.args[1]
          /\ IF Len(rows) = 1 /\ Len(rows[1]) = 1
             THEN IsStringFormOf(r, rows[1][1])
             ELSE JsonLoads(r) = [ok |-> TRUE, val |-> RowsValue(rows)]
          /\ rows = << <<PyInt(42)>> >> => r = "42"
          /\ rows = << <<PyInt(1), PyStrV("a")>>, <<PyInt(2), PyStrV("b")>> >>
                => r = "[[1, \"a\"], [2, \"b\"]]"

C9_Witness ==
    /\ pc = "print_answer"
    /\ data = << <<PyInt(1), PyStrV("a")>>, <<PyInt(2), PyStrV("b")>> >>
    /\ result_str = "[[1, \"a\"], [2, \"b\"]]"

====
